---- MODULE Spec2Model ----
(***************************************************************************)
(* A model of the SYNQ scoring services of yslshaz/synqX:                  *)
(*   - the FastAPI service  backend/main.py  (create_player, log_vitals,   *)
(*     log_workout_checklist) with its module-level rf_model,              *)
(*   - the Flask service  app.py  (predict) with its module-level model,   *)
(*     FEATURES and CLASSES,                                               *)
(*   - the tables of backend/models.py the handlers write,                 *)
(*   - the scripts backend/add_athletes.py and backend/manage_athletes.py  *)
(*     that maintain table athletes (SpecAthletes), and the rows of        *)
(*     models.py that reference an athlete (SpecStore).                    *)
(* Every handler is one action: the whole function body, from the request  *)
(* to the response or the exception that leaves it.  The variable `last`   *)
(* holds what the most recent call did (its request, the values it         *)
(* computed on the way, and how it ended).                                 *)
(*                                                                         *)
(* Python floats are modelled as exact rationals in lowest terms.          *)
(***************************************************************************)
EXTENDS Integers, Sequences, FiniteSets

VARIABLES
    rf_model,             \* main.py: the loaded artifact, or None
    model,                \* app.py: the loaded artifact (NotStarted: process not running)
    FEATURES,             \* app.py: the feature list used to build vectors
    CLASSES,              \* app.py: the class list used to label probabilities
    athletes,             \* table athletes: its rows
    athletes_meta,        \* table athletes: columns, constraints, ids and times handed out
    daily_metrics,        \* rows written through models.DailyMetric
    vital_readings,       \* table vital_readings
    fatigue_assessments,  \* table fatigue_assessments
    training_sessions,    \* table training_sessions, in insertion order
    last                  \* the most recent call: request, intermediate values, outcome

vars == <<rf_model, model, FEATURES, CLASSES, athletes, athletes_meta,
          daily_metrics, vital_readings, fatigue_assessments, training_sessions,
          last>>

\* Python's None where an artifact is expected, and the model variable of a
\* Flask process that is not running.
None == [name |-> "None"]
NotStarted == [name |-> "NotStarted"]

\* models.py 14-32: table athletes as Base.metadata.create_all makes it: name
\* is NOT NULL (Mapped[str]) and there is no short_id column.  issued counts
\* the ids generate_uuid has handed out, clock is the latest created_at
\* datetime.utcnow has given.
OrmSchema ==
    [short_id |-> "none", name_not_null |-> TRUE, issued |-> 0, clock |-> 0]

-----------------------------------------------------------------------------
(* Bounds of the model. *)

MaxPlanned == 2       \* longest planned exercise list
MaxCompleted == 3     \* longest completed exercise list
MaxSessions == 1      \* rows of training_sessions
MaxAthletes == 2      \* rows of athletes
MaxDeviations == 2    \* payload entries of /predict that are not plain numbers
MaxRows == 3          \* athletes ever inserted by add_athletes
MaxReadings == 1      \* rows of vital_readings, and of fatigue_assessments

ExerciseIds == {"a", "b"}
PlannedLoads == {4, 10}

SeqsUpTo(S, n) == UNION {[1..k -> S] : k \in 0..n}

-----------------------------------------------------------------------------
(* Floats as rationals in lowest terms, denominator > 0. *)

RECURSIVE Gcd(_, _)
Gcd(a, b) == IF b = 0 THEN a ELSE Gcd(b, a % b)

Abs(x) == IF x < 0 THEN -x ELSE x

Rat(n, d) ==
    LET g == Gcd(Abs(n), d)
    IN  [n |-> n \div g, d |-> d \div g]

RatMul(a, b) == Rat(a.n * b.n, a.d * b.d)
RatLe(a, b) == a.n * b.d <= b.n * a.d
RatLt(a, b) == a.n * b.d < b.n * a.d
Zero == Rat(0, 1)
One == Rat(1, 1)

-----------------------------------------------------------------------------
(* main.py, log_workout_checklist *)

\* A variant that counts the completed entries that are in the plan.
ScoreByMembership(planned, completed, planned_load) ==
    LET total_planned == Len(planned)
        total_done == Cardinality({i \in 1..Len(completed) :
                          \E j \in 1..Len(planned) : planned[j] = completed[i]})
        compliance == IF total_planned = 0 THEN Zero
                      ELSE Rat(total_done, total_planned)
    IN  [compliance |-> compliance,
         actual_load |-> RatMul(Rat(planned_load, 1), compliance)]

\* A variant without the empty-plan case: an empty plan counts as done.
ScoreEmptyPlanDone(planned, completed, planned_load) ==
    LET total_planned == Len(planned)
        total_done == Len(completed)
        compliance == IF total_planned = 0 THEN One
                      ELSE Rat(total_done, total_planned)
    IN  [compliance |-> compliance,
         actual_load |-> RatMul(Rat(planned_load, 1), compliance)]

\* A variant with the ratio upside down.
ScoreInverted(planned, completed, planned_load) ==
    LET total_planned == Len(planned)
        total_done == Len(completed)
        compliance == IF total_planned = 0 \/ total_done = 0 THEN Zero
                      ELSE Rat(total_planned, total_done)
    IN  [compliance |-> compliance,
         actual_load |-> RatMul(Rat(planned_load, 1), compliance)]

\* main.py 105-114: the compliance and the actual load of a checklist.
Score(planned, completed, planned_load) ==
    LET total_planned == Len(planned)
        total_done == Len(completed)
        compliance == IF total_planned = 0 THEN Zero
                      ELSE Rat(total_done, total_planned)
    IN  [compliance |-> compliance,
         actual_load |-> RatMul(Rat(planned_load, 1), compliance)]

\* main.py 132: f"{compliance*100:.1f}%", as the number of tenths of a percent
\* (rounded to the nearest tenth).
FormatPercent(compliance) ==
    [tenths |-> (2 * 1000 * compliance.n + compliance.d) \div (2 * compliance.d),
     suffix |-> "%"]

WorkoutLogs ==
    [athlete_id : {1},
     session_type : {"gym"},
     exercises_planned : SeqsUpTo(ExerciseIds, MaxPlanned),
     exercises_completed : SeqsUpTo(ExerciseIds, MaxCompleted),
     planned_load_score : PlannedLoads]

\* main.py 100-134
log_workout_checklist(log) ==
    LET s == Score(log.exercises_planned, log.exercises_completed,
                   log.planned_load_score)
        new_session == [id |-> Len(training_sessions) + 1,
                        athlete_id |-> log.athlete_id,
                        session_type |-> log.session_type,
                        exercises_planned |-> log.exercises_planned,
                        exercises_completed |-> log.exercises_completed,
                        planned_load |-> Rat(log.planned_load_score, 1),
                        actual_load |-> s.actual_load,
                        compliance_score |-> s.compliance]
    IN  /\ Len(training_sessions) < MaxSessions
        /\ training_sessions' = Append(training_sessions, new_session)
        /\ last' = [op |-> "log_workout_checklist",
                    request |-> log,
                    outcome |-> "returned",
                    session_id |-> new_session.id,
                    response |-> [status |-> "Logged",
                                  compliance_score |-> FormatPercent(s.compliance),
                                  actual_load |-> s.actual_load]]
        /\ UNCHANGED <<rf_model, model, FEATURES, CLASSES, athletes, athletes_meta,
                       daily_metrics, vital_readings, fatigue_assessments>>

NoCall == [op |-> "none"]

\* The FastAPI process with no artifact on disk and empty tables; the Flask
\* process is not running.  log_workout_checklist reads none of these.
InitWorkout ==
    /\ rf_model = None
    /\ model = NotStarted
    /\ FEATURES = <<>>
    /\ CLASSES = <<>>
    /\ athletes = {}
    /\ athletes_meta = OrmSchema
    /\ daily_metrics = <<>>
    /\ vital_readings = <<>>
    /\ fatigue_assessments = <<>>
    /\ training_sessions = <<>>
    /\ last = NoCall

NextWorkout == \E log \in WorkoutLogs : log_workout_checklist(log)

SpecWorkout == InitWorkout /\ [][NextWorkout]_vars

-----------------------------------------------------------------------------
(* The model artifact predictor.pkl: what joblib.load returns.               *)
(* feature_names_in_ and classes_ are <<>> when the object has no such       *)
(* attribute (getattr(model, ..., [])); labels are the values predict can    *)
(* return; proba_order is the label of each column of predict_proba, <<>>    *)
(* when the object has no such method.                                       *)

StrapColumns == <<"Heart_Rate", "Body_Temperature", "Blood_Oxygen", "Unnamed: 3">>

ArtForest ==
    [name |-> "forest",
     feature_names_in_ |-> StrapColumns,
     classes_ |-> <<"Fatigued", "Normal">>,
     labels |-> {"Fatigued", "Normal"},
     has_predict_proba |-> TRUE,
     proba_order |-> <<"Fatigued", "Normal">>]

ArtBare ==
    [name |-> "bare",
     feature_names_in_ |-> <<>>,
     classes_ |-> <<>>,
     labels |-> {"Moderate"},
     has_predict_proba |-> FALSE,
     proba_order |-> <<>>]

\* An estimator object with predict and predict_proba that exposes neither
\* feature_names_in_ nor classes_.
ArtWrapper ==
    [name |-> "wrapper",
     feature_names_in_ |-> <<>>,
     classes_ |-> <<>>,
     labels |-> {"High", "Low"},
     has_predict_proba |-> TRUE,
     proba_order |-> <<"High", "Low">>]

Artifacts == {ArtForest, ArtBare, ArtWrapper}

Raises == "raises"

\* model.predict(X)[0]: a label of the model, or an exception.
PredictOutcomes(m, X) == m.labels \cup {Raises}

RECURSIVE SumSeq(_)
SumSeq(q) == IF q = <<>> THEN 0 ELSE q[1] + SumSeq(Tail(q))

Index(q, x) == CHOOSE i \in 1..Len(q) : q[i] = x

\* model.predict_proba(X)[0]: one probability (in percent) per column, summing
\* to 100, the predicted label having the largest.
ProbaOutcomes(m, pred) ==
    {q \in [1..Len(m.proba_order) -> {0, 25, 50, 75, 100}] :
        /\ SumSeq(q) = 100
        /\ \A i \in 1..Len(q) : q[i] <= q[Index(m.proba_order, pred)]}

-----------------------------------------------------------------------------
(* main.py, the module-level load (16-25) and the tables of models.py *)

\* main.py 20-25: joblib.load succeeds, or any exception leaves rf_model None.
LoadRfModel == Artifacts \cup {None}

\* main.py 73: `if rf_model:`
Truthy(m) == m # None

\* models.py: the mapped classes the module defines.
ModelsClasses ==
    {"Athlete", "TrainingSession", "Goal", "Baseline", "VitalReading",
     "FatigueAssessment"}

AthleteCreates == [name : {"A"}]

\* main.py 30-40
create_player(player) ==
    LET db_player == [id |-> Cardinality(athletes) + 1, name |-> player.name]
    IN  /\ Cardinality(athletes) < MaxAthletes
        /\ athletes' = athletes \cup {db_player}
        /\ last' = [op |-> "create_player", request |-> player,
                    outcome |-> "returned", response |-> db_player]
        /\ UNCHANGED <<rf_model, model, FEATURES, CLASSES, athletes_meta,
                       daily_metrics, vital_readings, fatigue_assessments,
                       training_sessions>>

-----------------------------------------------------------------------------
(* main.py, log_vitals *)

MetricInputs ==
    [athlete_id : 1..MaxAthletes, bpm : {60, 140}, hrv : {50}, rmssd : {30}]

\* A variant that leaves the oxygen default out and puts the bias first.
InputDfNoDefaults(data) ==
    [columns |-> <<"Unnamed: 3", "Heart_Rate", "Body_Temperature">>,
     row |-> <<1, data.bpm, 37>>]

\* main.py 63-68: the one-row frame handed to the model.
InputDf(data) ==
    [columns |-> StrapColumns,
     row |-> <<data.bpm, 37, 98, 1>>]

\* main.py 70-80: the label; out is what rf_model.predict does when called.
FatigueResult(m, out) ==
    IF Truthy(m)
    THEN IF out = Raises THEN "AI_Error" ELSE out
    ELSE "Normal"

\* A variant whose except branch switches the model off for later calls.
log_vitals_disabling_model(data) ==
    LET input_df == InputDf(data)
    IN  \E out \in (IF Truthy(rf_model) THEN PredictOutcomes(rf_model, input_df)
                    ELSE {"not called"}) :
          /\ rf_model' = IF out = Raises THEN None ELSE rf_model
          /\ last' = [op |-> "log_vitals",
                      request |-> data,
                      input_df |-> input_df,
                      degraded |-> ~Truthy(rf_model),
                      model_invoked |-> Truthy(rf_model),
                      predict_raised |-> (out = Raises),
                      fatigue_result |-> FatigueResult(rf_model, out),
                      outcome |-> "AttributeError",
                      response |-> None]
          /\ UNCHANGED <<model, FEATURES, CLASSES, athletes, athletes_meta,
                         daily_metrics, vital_readings, fatigue_assessments,
                         training_sessions>>

\* main.py 53-95.  Line 83 reads models.DailyMetric: with no such class in
\* models.py the attribute lookup raises AttributeError and the handler ends
\* there, before db.add.
log_vitals(data) ==
    LET input_df == InputDf(data)
    IN  \E out \in (IF Truthy(rf_model) THEN PredictOutcomes(rf_model, input_df)
                    ELSE {"not called"}) :
          LET fatigue_result == FatigueResult(rf_model, out)
              new_metric == [id |-> Len(daily_metrics) + 1,
                             athlete_id |-> data.athlete_id,
                             bpm |-> data.bpm,
                             hrv |-> data.hrv,
                             rmssd |-> data.rmssd,
                             fatigue_status |-> fatigue_result]
              saved == "DailyMetric" \in ModelsClasses
          IN  /\ daily_metrics' = IF saved THEN Append(daily_metrics, new_metric)
                                  ELSE daily_metrics
              /\ last' = [op |-> "log_vitals",
                          request |-> data,
                          input_df |-> input_df,
                          degraded |-> ~Truthy(rf_model),
                          model_invoked |-> Truthy(rf_model),
                          predict_raised |-> (out = Raises),
                          fatigue_result |-> fatigue_result,
                          outcome |-> IF saved THEN "returned" ELSE "AttributeError",
                          response |-> IF saved THEN new_metric ELSE None]
              /\ UNCHANGED <<rf_model, model, FEATURES, CLASSES, athletes,
                             athletes_meta, vital_readings, fatigue_assessments,
                             training_sessions>>

-----------------------------------------------------------------------------
(* main.py, a request body that is not a MetricInput *)

\* Request bodies for /log-vitals as they arrive, each field a JSON value or
\* left out: one field of a well-formed body replaced.
MetricFields == {"athlete_id", "bpm", "hrv", "rmssd"}

RawMetricBodies ==
    {[f \in MetricFields \ {g \in {d} : v.kind = "absent"} |->
         IF f = d THEN v
         ELSE IF f = "athlete_id" THEN [kind |-> "str", s |-> <<"1">>]
         ELSE [kind |-> "num", v |-> 60]] :
       d \in {"bpm", "hrv"},
       v \in {[kind |-> "absent"], [kind |-> "null"],
              [kind |-> "str", s |-> <<"a", "b", "c">>], [kind |-> "num", v |-> 70]}}

\* schemas.py 27-31: athlete_id: str, bpm: int, hrv: float, rmssd: float, all
\* required.
MetricInputValid(body) ==
    /\ MetricFields \subseteq DOMAIN body
    /\ body["athlete_id"].kind = "str"
    /\ \A f \in {"bpm", "hrv", "rmssd"} : body[f].kind = "num"

\* A variant that stores the body's heart rate before it answers 422.
RejectAfterSave(body) ==
    /\ ~MetricInputValid(body)
    /\ daily_metrics' = Append(daily_metrics, [id |-> Len(daily_metrics) + 1])
    /\ last' = [op |-> "log_vitals_rejected", request |-> body, status |-> 422,
                outcome |-> "returned"]
    /\ UNCHANGED <<rf_model, model, FEATURES, CLASSES, athletes, athletes_meta,
                   vital_readings, fatigue_assessments, training_sessions>>

\* main.py 53-54: the parameter `data: schemas.MetricInput` makes FastAPI
\* validate the body first; a body that fails is answered 422 and log_vitals
\* is not called.
RejectMetricInput(body) ==
    /\ ~MetricInputValid(body)
    /\ last' = [op |-> "log_vitals_rejected", request |-> body, status |-> 422,
                outcome |-> "returned"]
    /\ UNCHANGED <<rf_model, model, FEATURES, CLASSES, athletes, athletes_meta,
                   daily_metrics, vital_readings, fatigue_assessments,
                   training_sessions>>

-----------------------------------------------------------------------------
(* app.py, the module-level load (52-69) *)

\* app.py 66-67
FallbackFeatures ==
    <<"Heart_Rate", "Body_Temperature", "Blood_Oxygen", "Unnamed: 3",
      "Heart_Rate_Body_Temp", "Oxygen_Heart_Rate_Ratio">>

\* A variant without the fallback: the declared list, even when empty.
FeaturesOfDeclaredOnly(m) == m.feature_names_in_

\* app.py 63-67
FeaturesOf(m) ==
    IF m.feature_names_in_ # <<>> THEN m.feature_names_in_ ELSE FallbackFeatures

\* app.py 69
ClassesOf(m) == m.classes_

-----------------------------------------------------------------------------
(* JSON values of a /predict payload and Python's float() on them *)

Num(v) == [kind |-> "num", v |-> v]
Str(chars) == [kind |-> "str", s |-> chars]
Bool(b) == [kind |-> "bool", b |-> b]
Null == [kind |-> "null"]

Digits == <<"0", "1", "2", "3", "4", "5", "6", "7", "8", "9">>

IsDigit(ch) == \E i \in 1..Len(Digits) : Digits[i] = ch

DigitValue(ch) == (CHOOSE i \in 1..Len(Digits) : Digits[i] = ch) - 1

RECURSIVE ParseDigits(_)
ParseDigits(chars) ==
    IF chars = <<>> THEN 0
    ELSE 10 * ParseDigits(SubSeq(chars, 1, Len(chars) - 1))
           + DigitValue(chars[Len(chars)])

\* A variant of float() that turns what it cannot convert into 0.
ToFloatLenient(v) ==
    CASE v.kind = "num" -> [ok |-> TRUE, val |-> v.v]
      [] v.kind = "bool" -> [ok |-> TRUE, val |-> IF v.b THEN 1 ELSE 0]
      [] v.kind = "str" ->
           IF v.s # <<>> /\ \A i \in 1..Len(v.s) : IsDigit(v.s[i])
           THEN [ok |-> TRUE, val |-> ParseDigits(v.s)]
           ELSE [ok |-> TRUE, val |-> 0]
      [] OTHER -> [ok |-> TRUE, val |-> 0]

\* app.py 195-199: float(v) returns a number (a number, a bool, a string of
\* digits) or raises (any other string: ValueError; null: TypeError).
ToFloat(v) ==
    CASE v.kind = "num" -> [ok |-> TRUE, val |-> v.v]
      [] v.kind = "bool" -> [ok |-> TRUE, val |-> IF v.b THEN 1 ELSE 0]
      [] v.kind = "str" ->
           IF v.s # <<>> /\ \A i \in 1..Len(v.s) : IsDigit(v.s[i])
           THEN [ok |-> TRUE, val |-> ParseDigits(v.s)]
           ELSE [ok |-> FALSE, val |-> 0]
      [] OTHER -> [ok |-> FALSE, val |-> 0]

\* The payloads sent to /predict: every fallback feature with a number of its
\* own, except for at most MaxDeviations entries that are left out or hold
\* another JSON value.
PlainValue(f) ==
    CASE f = "Heart_Rate" -> Num(80)
      [] f = "Body_Temperature" -> Num(36)
      [] f = "Blood_Oxygen" -> Num(97)
      [] f = "Unnamed: 3" -> Num(1)
      [] f = "Heart_Rate_Body_Temp" -> Num(2880)
      [] OTHER -> Num(2)

Absent == [kind |-> "absent"]

OddValues == {Absent, Str(<<"8", "1">>), Str(<<"a", "b", "c">>), Null, Bool(TRUE)}

PayloadKeys == {FallbackFeatures[i] : i \in 1..Len(FallbackFeatures)}

Payloads ==
    UNION {
      {[f \in PayloadKeys \ {g \in D : odd[g] = Absent}
           |-> IF f \in D THEN odd[f] ELSE PlainValue(f)] : odd \in [D -> OddValues]}
      : D \in {E \in SUBSET PayloadKeys : Cardinality(E) <= MaxDeviations}}

-----------------------------------------------------------------------------
(* app.py, predict *)

Elems(q) == {q[i] : i \in 1..Len(q)}

\* app.py 177
Missing(features, payload) ==
    SelectSeq(features, LAMBDA f : f \notin DOMAIN payload)

\* app.py 191-199: the features float() rejects, each with the rejected value.
Bad(features, payload) ==
    LET B == {f \in Elems(features) : ~ToFloat(payload[f]).ok}
    IN  [f \in B |-> payload[f]]

\* app.py 191-199: the features float() converts, each with its number.
Row(features, payload) ==
    LET G == {f \in Elems(features) : ToFloat(payload[f]).ok}
    IN  [f \in G |-> ToFloat(payload[f]).val]

\* A variant that carries a value over from the previous call's frame.
FrameWithCarryOver(row, features) ==
    [i \in 1..Len(features) |->
        row[features[i]] + (IF last.op = "predict" THEN 1 ELSE 0)]

\* app.py 212: pd.DataFrame([row], columns=FEATURES), the row in column order.
Frame(row, features) == [i \in 1..Len(features) |-> row[features[i]]]

NoBody ==
    [error |-> "", missing |-> <<>>, expected_features |-> <<>>, bad |-> <<>>,
     prediction |-> "", has_probabilities |-> FALSE, probabilities |-> <<>>]

PredictResult(payload, status, outcome, X, built, invoked, raised, body) ==
    [op |-> "predict", request |-> payload, status |-> status,
     outcome |-> outcome, X |-> X, built |-> built,
     model_invoked |-> invoked, predict_raised |-> raised, body |-> body]

\* app.py 165-221
predict(payload) ==
    LET missing == Missing(FEATURES, payload)
    IN  /\ model # NotStarted
        /\ UNCHANGED <<rf_model, model, FEATURES, CLASSES, athletes, athletes_meta,
                       daily_metrics, vital_readings, fatigue_assessments,
                       training_sessions>>
        /\ IF missing # <<>>
           THEN last' = PredictResult(payload, 400, "returned", <<>>, FALSE, FALSE, FALSE,
                            [NoBody EXCEPT !.error = "Missing required feature(s).",
                                           !.missing = missing,
                                           !.expected_features = FEATURES])
           ELSE LET bad == Bad(FEATURES, payload)
                    row == Row(FEATURES, payload)
                IN  IF DOMAIN bad # {}
                    THEN last' = PredictResult(payload, 400, "returned", <<>>, FALSE,
                                     FALSE, FALSE,
                                     [NoBody EXCEPT
                                        !.error = "Some features are not numeric.",
                                        !.bad = bad])
                    ELSE LET X == Frame(row, FEATURES)
                         IN  \E pred \in PredictOutcomes(model, X) :
                               IF pred = Raises
                               THEN last' = PredictResult(payload, 500, "raised", X, TRUE,
                                                TRUE, TRUE, NoBody)
                               ELSE IF model.has_predict_proba
                               THEN \E probs \in ProbaOutcomes(model, pred) :
                                      last' = PredictResult(payload, 200, "returned", X,
                                                TRUE, TRUE, FALSE,
                                                [NoBody EXCEPT
                                                   !.prediction = pred,
                                                   !.has_probabilities = TRUE,
                                                   !.probabilities =
                                                      [c \in Elems(CLASSES) |->
                                                         probs[Index(CLASSES, c)]]])
                               ELSE last' = PredictResult(payload, 200, "returned", X,
                                                TRUE, TRUE, FALSE,
                                                [NoBody EXCEPT !.prediction = pred])

-----------------------------------------------------------------------------
(* The two services, each after its module-level code has run. *)

Init ==
    /\ rf_model \in LoadRfModel
    /\ model \in Artifacts
    /\ FEATURES = FeaturesOf(model)
    /\ CLASSES = ClassesOf(model)
    /\ athletes = {}
    /\ athletes_meta = OrmSchema
    /\ daily_metrics = <<>>
    /\ vital_readings = <<>>
    /\ fatigue_assessments = <<>>
    /\ training_sessions = <<>>
    /\ last = NoCall

\* The client takes the response (or the error) of the call off the wire.
Respond ==
    /\ last # NoCall
    /\ last' = NoCall
    /\ UNCHANGED <<rf_model, model, FEATURES, CLASSES, athletes, athletes_meta,
                   daily_metrics, vital_readings, fatigue_assessments,
                   training_sessions>>

\* One call at a time: a handler runs on a request, then its response is taken.
CreatePlayerRequest ==
    last = NoCall /\ \E player \in AthleteCreates : create_player(player)

LogVitalsRequest ==
    last = NoCall /\ \E data \in MetricInputs : log_vitals(data)

PredictRequest ==
    last = NoCall /\ \E payload \in Payloads : predict(payload)

LogVitalsRejectedRequest ==
    last = NoCall /\ \E body \in RawMetricBodies : RejectMetricInput(body)

Next ==
    \/ CreatePlayerRequest
    \/ LogVitalsRequest
    \/ LogVitalsRejectedRequest
    \/ PredictRequest
    \/ Respond

Spec == Init /\ [][Next]_vars

-----------------------------------------------------------------------------
(* SQL text values, Python strings and the orderings the scripts rely on *)

\* A TEXT column value: NULL (None in Python) or a string of characters.
SqlNull == [null |-> TRUE, s |-> <<>>]
Text(chars) == [null |-> FALSE, s |-> chars]

CharCode(ch) ==
    CASE ch = " " -> 32
      [] ch = "B" -> 66
      [] ch = "F" -> 70
      [] ch = "b" -> 98
      [] ch = "f" -> 102
      [] OTHER -> 111

LowerChar(ch) ==
    CASE ch = "B" -> "b"
      [] ch = "F" -> "f"
      [] OTHER -> ch

\* str.lower() and SQLite's lower() on these characters.
LowerStr(chars) == [i \in 1..Len(chars) |-> LowerChar(chars[i])]

RECURSIVE LStrip(_)
LStrip(chars) ==
    IF chars # <<>> /\ Head(chars) = " " THEN LStrip(Tail(chars)) ELSE chars

RECURSIVE RStrip(_)
RStrip(chars) ==
    IF chars # <<>> /\ chars[Len(chars)] = " "
    THEN RStrip(SubSeq(chars, 1, Len(chars) - 1))
    ELSE chars

\* str.strip()
Strip(chars) == RStrip(LStrip(chars))

\* Binary collation: bytewise, a proper prefix first.
RECURSIVE StrLess(_, _)
StrLess(a, b) ==
    IF b = <<>> THEN FALSE
    ELSE IF a = <<>> THEN TRUE
    ELSE IF CharCode(Head(a)) # CharCode(Head(b))
         THEN CharCode(Head(a)) < CharCode(Head(b))
         ELSE StrLess(Tail(a), Tail(b))

\* ORDER BY on a TEXT column: NULL before every string.
SqlTextLess(x, y) ==
    IF x.null THEN ~y.null
    ELSE ~y.null /\ StrLess(x.s, y.s)

SqlLower(x) == IF x.null THEN x ELSE Text(LowerStr(x.s))

RECURSIVE ToDigits(_)
ToDigits(n) ==
    IF n < 10 THEN <<Digits[n + 1]>>
    ELSE ToDigits(n \div 10) \o <<Digits[(n % 10) + 1]>>

RECURSIVE ZeroPad(_, _)
ZeroPad(chars, width) ==
    IF Len(chars) >= width THEN chars ELSE ZeroPad(<<"0">> \o chars, width)

\* A variant that prints the number without padding ('%d').
FormatUnpadded(n) == ToDigits(n)

\* manage_athletes.py 93, 263: printf('%03d', n)
Format03d(n) == ZeroPad(ToDigits(n), 3)

-----------------------------------------------------------------------------
(* add_athletes.py *)

\* The dicts handed to add_athletes: the keyword arguments of Athlete, one of
\* them with a key Athlete does not have.
Player(name, position, n, extra_key) ==
    [name |-> name, position |-> position, height_cm |-> 170 + n,
     weight_kg |-> 70 + n, age |-> 20 + n, extra_key |-> extra_key]

Players ==
    {Player(Text(<<"B", "o">>), Text(<<"F">>), 1, FALSE),
     Player(Text(<<" ", "b", "o">>), SqlNull, 2, FALSE),
     Player(Text(<<"B", "o">>), Text(<<>>), 3, FALSE),
     Player(SqlNull, SqlNull, 4, FALSE),
     Player(Text(<<"B", "o">>), Text(<<"F">>), 5, TRUE)}

\* The lists handed to add_athletes: one player, or two.
PlayerLists == {<<p>> : p \in Players} \cup {<<p, q>> : p, q \in Players}

\* models.py 27-29: created_at defaults to datetime.utcnow, taken row by row
\* when the session flushes: never earlier than the time before it, possibly
\* equal to it.
TimeSeqs(clock, n) ==
    {t \in [1..n -> 1..(clock + n)] :
        /\ t[1] \in {IF clock = 0 THEN 1 ELSE clock, clock + 1}
        /\ \A i \in 1..(n - 1) : t[i + 1] \in {t[i], t[i] + 1}}

\* add_athletes.py 24: Athlete(**p) raises TypeError for a key that is not an
\* attribute of Athlete.
AthleteKwargsOk(p) == ~p.extra_key

\* add_athletes.py 27: the INSERTs the commit flushes fail (IntegrityError)
\* when a name is None in a table whose name is NOT NULL, or when the table
\* has the NOT NULL short_id column, which Athlete does not fill.
CommitFails(meta, players) ==
    \/ meta.short_id = "unique_not_null"
    \/ meta.name_not_null /\ \E i \in 1..Len(players) : players[i].name.null

NewAthlete(p, id, created_at) ==
    [id |-> id, name |-> p.name, position |-> p.position,
     height_cm |-> p.height_cm, weight_kg |-> p.weight_kg, age |-> p.age,
     created_at |-> created_at, short_id |-> SqlNull]

\* A variant that commits after every db.add.
AddAthletesCommitEach(T, meta, players, times) ==
    LET firstBad == IF \E i \in 1..Len(players) : ~AthleteKwargsOk(players[i])
                    THEN CHOOSE i \in 1..Len(players) :
                           /\ ~AthleteKwargsOk(players[i])
                           /\ \A j \in 1..(i - 1) : AthleteKwargsOk(players[j])
                    ELSE Len(players) + 1
    IN  [table |-> T \cup {NewAthlete(players[i], meta.issued + i, times[i]) :
                             i \in 1..(firstBad - 1)},
         outcome |-> IF firstBad <= Len(players) THEN "TypeError" ELSE "committed"]

\* add_athletes.py 22-33: the table after the call and how the try block
\* ended.  Nothing reaches the table before db.commit() (autoflush is off),
\* and the commit is one transaction.
AddAthletesResult(T, meta, players, times) ==
    IF \E i \in 1..Len(players) : ~AthleteKwargsOk(players[i])
    THEN [table |-> T, outcome |-> "TypeError"]
    ELSE IF CommitFails(meta, players)
    THEN [table |-> T, outcome |-> "IntegrityError"]
    ELSE [table |-> T \cup {NewAthlete(players[i], meta.issued + i, times[i]) :
                              i \in 1..Len(players)},
          outcome |-> "committed"]

\* add_athletes.py 23-26: the number of athletes db.add has taken when the
\* loop ends, by a TypeError or at its end.
Added(players) ==
    IF \E i \in 1..Len(players) : ~AthleteKwargsOk(players[i])
    THEN (CHOOSE i \in 1..Len(players) :
            /\ ~AthleteKwargsOk(players[i])
            /\ \A j \in 1..(i - 1) : AthleteKwargsOk(players[j])) - 1
    ELSE Len(players)

\* add_athletes.py 19-35
add_athletes(players) ==
    /\ athletes_meta.issued + Len(players) <= MaxRows
    /\ \E times \in TimeSeqs(athletes_meta.clock, Len(players)) :
         LET res == AddAthletesResult(athletes, athletes_meta, players, times)
             inserted == Cardinality(res.table) - Cardinality(athletes)
         IN  /\ athletes' = res.table
             /\ athletes_meta' =
                  IF inserted > 0
                  THEN [athletes_meta EXCEPT !.issued = @ + inserted,
                                             !.clock = times[inserted]]
                  ELSE athletes_meta
             /\ last' = [op |-> "add_athletes",
                         requested |-> Len(players),
                         added |-> Added(players),
                         outcome |-> res.outcome,
                         rolled_back |-> res.outcome # "committed",
                         session_closed |-> TRUE,
                         escaped |-> FALSE]
    /\ UNCHANGED <<rf_model, model, FEATURES, CLASSES, daily_metrics,
                   vital_readings, fatigue_assessments, training_sessions>>

-----------------------------------------------------------------------------
(* manage_athletes.py *)

\* manage_athletes.py 36-45
add_short_id_column_if_missing ==
    /\ athletes_meta' =
         IF athletes_meta.short_id = "none"
         THEN [athletes_meta EXCEPT !.short_id = "nullable"]
         ELSE athletes_meta
    /\ last' = [op |-> "add_short_id_column_if_missing", outcome |-> "completed",
                added |-> (athletes_meta.short_id = "none")]
    /\ UNCHANGED <<rf_model, model, FEATURES, CLASSES, athletes, daily_metrics,
                   vital_readings, fatigue_assessments, training_sessions>>

\* manage_athletes.py 56: ORDER BY lower(name), position, created_at
OrderedBefore(r1, r2) ==
    \/ SqlTextLess(SqlLower(r1.name), SqlLower(r2.name))
    \/ /\ SqlLower(r1.name) = SqlLower(r2.name)
       /\ \/ SqlTextLess(r1.position, r2.position)
          \/ /\ r1.position = r2.position
             /\ r1.created_at < r2.created_at

\* manage_athletes.py 51-59: the rows in that order; rows the ordering does
\* not tell apart come in either order.
RECURSIVE SelectOrdered(_)
SelectOrdered(T) ==
    IF T = {} THEN {<<>>}
    ELSE UNION {{<<r>> \o q : q \in SelectOrdered(T \ {r})} :
                  r \in {x \in T : \A y \in T : ~OrderedBefore(y, x)}}

\* A variant of the key that compares names as they are stored.
KeyExact(r) ==
    <<IF r.name.null THEN <<>> ELSE r.name.s,
      IF r.position.null THEN <<>> ELSE r.position.s>>

\* manage_athletes.py 64
Key(r) ==
    <<IF r.name.null \/ r.name.s = <<>> THEN <<>> ELSE LowerStr(Strip(r.name.s)),
      IF r.position.null THEN <<>> ELSE r.position.s>>

\* manage_athletes.py 61-68: the ids of the rows whose key was seen before.
RECURSIVE ToDelete(_, _)
ToDelete(rows, seen) ==
    IF rows = <<>> THEN <<>>
    ELSE IF Key(Head(rows)) \notin seen
         THEN ToDelete(Tail(rows), seen \cup {Key(Head(rows))})
         ELSE <<Head(rows).id>> \o ToDelete(Tail(rows), seen)

\* manage_athletes.py 48-80.  The rows go by DELETE FROM athletes WHERE id =
\* :id, a statement that touches table athletes only.
remove_duplicate_athletes ==
    \E rows \in SelectOrdered(athletes) :
        LET to_delete == ToDelete(rows, {})
        IN  /\ athletes' = {r \in athletes : r.id \notin Elems(to_delete)}
            /\ last' = [op |-> "remove_duplicate_athletes", outcome |-> "completed",
                        deleted |-> Len(to_delete)]
            /\ UNCHANGED <<rf_model, model, FEATURES, CLASSES, athletes_meta,
                           daily_metrics, vital_readings, fatigue_assessments,
                           training_sessions>>

\* manage_athletes.py 93, 263: ROW_NUMBER() OVER (ORDER BY created_at): the
\* rows numbered in an order of created_at, equal times in either order.
RECURSIVE Numbered(_)
Numbered(T) ==
    IF T = {} THEN {<<>>}
    ELSE UNION {{<<r>> \o q : q \in Numbered(T \ {r})} :
                  r \in {x \in T : \A y \in T : x.created_at <= y.created_at}}

\* manage_athletes.py 91-98: every row given the number it has in q.
WithShortIds(q) ==
    {[q[i] EXCEPT !.short_id = Text(Format03d(i))] : i \in 1..Len(q)}

\* manage_athletes.py 96-97 on a table whose short_id is UNIQUE: the UPDATE
\* goes row by row, and a row that is given the short_id another row still
\* holds ends the statement with IntegrityError.
MayCollide(T, q) ==
    \E i \in 1..Len(q) : \E r \in T :
        /\ r.id # q[i].id
        /\ r.short_id = Text(Format03d(i))
        /\ q[i].short_id # Text(Format03d(i))

\* manage_athletes.py 83-103
assign_short_ids ==
    /\ UNCHANGED <<rf_model, model, FEATURES, CLASSES, athletes_meta, daily_metrics,
                   vital_readings, fatigue_assessments, training_sessions>>
    /\ IF athletes = {}
       THEN /\ athletes' = athletes
            /\ last' = [op |-> "assign_short_ids", outcome |-> "completed",
                        assigned |-> 0]
       ELSE IF athletes_meta.short_id = "none"
       THEN /\ athletes' = athletes
            /\ last' = [op |-> "assign_short_ids", outcome |-> "OperationalError",
                        assigned |-> 0]
       ELSE \E q \in Numbered(athletes) :
              \/ /\ athletes' = WithShortIds(q)
                 /\ last' = [op |-> "assign_short_ids", outcome |-> "completed",
                             assigned |-> Len(q)]
              \/ /\ athletes_meta.short_id = "unique_not_null"
                 /\ MayCollide(athletes, q)
                 /\ athletes' = athletes
                 /\ last' = [op |-> "assign_short_ids", outcome |-> "IntegrityError",
                             assigned |-> 0]

\* A variant of the copy that leaves out the rows without a position.
CopyWithPosition(T) ==
    {[r EXCEPT !.short_id = SqlNull] : r \in {x \in T : ~x.position.null}}

\* manage_athletes.py 126-133: INSERT INTO athletes_new (id, name, position,
\* height_cm, weight_kg, age, created_at) SELECT ... FROM athletes
CopyWithoutShortId(T) == {[r EXCEPT !.short_id = SqlNull] : r \in T}

\* manage_athletes.py 106-140: the rebuilt table has no short_id and no NOT
\* NULL column.
drop_short_id_column ==
    /\ athletes' = CopyWithoutShortId(athletes)
    /\ athletes_meta' = [athletes_meta EXCEPT !.short_id = "none",
                                              !.name_not_null = FALSE]
    /\ last' = [op |-> "drop_short_id_column", outcome |-> "completed"]
    /\ UNCHANGED <<rf_model, model, FEATURES, CLASSES, daily_metrics,
                   vital_readings, fatigue_assessments, training_sessions>>

\* manage_athletes.py 232-286.  The INSERT fails on a row whose name is NULL
\* (name TEXT NOT NULL); the connection is closed without a commit and table
\* athletes is as it was.
add_and_assign_short_id ==
    /\ UNCHANGED <<rf_model, model, FEATURES, CLASSES, daily_metrics,
                   vital_readings, fatigue_assessments, training_sessions>>
    /\ IF \E r \in athletes : r.name.null
       THEN /\ UNCHANGED <<athletes, athletes_meta>>
            /\ last' = [op |-> "add_and_assign_short_id", outcome |-> "IntegrityError"]
       ELSE \E q \in Numbered(athletes) :
              /\ athletes' = WithShortIds(q)
              /\ athletes_meta' = [athletes_meta EXCEPT !.short_id = "unique_not_null",
                                                        !.name_not_null = TRUE]
              /\ last' = [op |-> "add_and_assign_short_id", outcome |-> "completed"]

-----------------------------------------------------------------------------
(* models.py: rows that reference an athlete *)

AthleteIds == {r.id : r \in athletes}

NextRowId(rows) ==
    IF rows = <<>> THEN 1
    ELSE 1 + (CHOOSE m \in {rows[i].id : i \in 1..Len(rows)} :
                 \A i \in 1..Len(rows) : rows[i].id <= m)

\* models.py 132-150: a VitalReading of an athlete on record, added through
\* the session.
create_vital_reading(athlete_id) ==
    /\ Len(vital_readings) < MaxReadings
    /\ athlete_id \in AthleteIds
    /\ vital_readings' = Append(vital_readings,
                                [id |-> NextRowId(vital_readings),
                                 athlete_id |-> athlete_id])
    /\ last' = [op |-> "create_vital_reading", outcome |-> "completed"]
    /\ UNCHANGED <<rf_model, model, FEATURES, CLASSES, athletes, athletes_meta,
                   daily_metrics, fatigue_assessments, training_sessions>>

\* models.py 152-174: a FatigueAssessment of a stored reading, added through
\* the session.
create_fatigue_assessment(reading) ==
    /\ Len(fatigue_assessments) < MaxReadings
    /\ reading.athlete_id \in AthleteIds
    /\ fatigue_assessments' = Append(fatigue_assessments,
                                     [id |-> NextRowId(fatigue_assessments),
                                      athlete_id |-> reading.athlete_id,
                                      vital_reading_id |-> reading.id])
    /\ last' = [op |-> "create_fatigue_assessment", outcome |-> "completed"]
    /\ UNCHANGED <<rf_model, model, FEATURES, CLASSES, athletes, athletes_meta,
                   daily_metrics, vital_readings, training_sessions>>

\* models.py 44-52: session.delete(athlete) with cascade="all, delete-orphan"
\* on vital_readings and fatigue_assessments deletes the athlete's rows of
\* both tables with it.
delete_athlete(athlete_id) ==
    /\ athlete_id \in AthleteIds
    /\ athletes' = {r \in athletes : r.id # athlete_id}
    /\ vital_readings' = SelectSeq(vital_readings, LAMBDA v : v.athlete_id # athlete_id)
    /\ fatigue_assessments' =
         SelectSeq(fatigue_assessments, LAMBDA f : f.athlete_id # athlete_id)
    /\ last' = [op |-> "delete_athlete", outcome |-> "completed"]
    /\ UNCHANGED <<rf_model, model, FEATURES, CLASSES, athletes_meta, daily_metrics,
                   training_sessions>>

-----------------------------------------------------------------------------
(* The database of backend/ under the maintenance scripts. *)

\* synq.db after create_tables.py: every table empty, no service running.
InitAthletes ==
    /\ rf_model = None
    /\ model = NotStarted
    /\ FEATURES = <<>>
    /\ CLASSES = <<>>
    /\ athletes = {}
    /\ athletes_meta = OrmSchema
    /\ daily_metrics = <<>>
    /\ vital_readings = <<>>
    /\ fatigue_assessments = <<>>
    /\ training_sessions = <<>>
    /\ last = NoCall

AddAthletes == \E players \in PlayerLists : add_athletes(players)

NextAthletes ==
    \/ AddAthletes
    \/ add_short_id_column_if_missing
    \/ remove_duplicate_athletes
    \/ assign_short_ids
    \/ drop_short_id_column
    \/ add_and_assign_short_id

SpecAthletes == InitAthletes /\ [][NextAthletes]_vars

CreateVitalReading == \E a \in AthleteIds : create_vital_reading(a)

CreateFatigueAssessment ==
    \E i \in 1..Len(vital_readings) : create_fatigue_assessment(vital_readings[i])

DeleteAthlete == \E a \in AthleteIds : delete_athlete(a)

NextStore ==
    \/ AddAthletes
    \/ remove_duplicate_athletes
    \/ CreateVitalReading
    \/ CreateFatigueAssessment
    \/ DeleteAthlete

SpecStore == InitAthletes /\ [][NextStore]_vars

-----------------------------------------------------------------------------
(* The scoring calls arriving back to back: each call finds the previous     *)
(* call's values still in `last`.                                            *)

\* The payloads with at most one entry left out or odd.
RerunPayloads ==
    {p \in Payloads :
        Cardinality({f \in PayloadKeys : f \notin DOMAIN p \/ p[f] # PlainValue(f)}) <= 1}

PredictAgain == \E payload \in RerunPayloads : predict(payload)

LogVitalsAgain == \E data \in MetricInputs : log_vitals(data)

NextRerun == PredictAgain \/ LogVitalsAgain

SpecRerun == Init /\ [][NextRerun]_vars

-----------------------------------------------------------------------------
(* Claims about log_workout_checklist, checked under SpecWorkout. *)

Sessions == {training_sessions[i] : i \in 1..Len(training_sessions)}

\* C1: every persisted session, and the response of the call that wrote it,
\* has compliance = len(completed) / len(planned) when the plan is not empty
\* and 0 when it is empty, and actual_load = planned_load * compliance; an
\* empty plan gives (0, 0) whatever the completed list and the load are.
C1_ScoreFormula ==
    /\ \A s \in Sessions :
         LET p == Len(s.exercises_planned)
             c == Len(s.exercises_completed)
         IN  /\ s.planned_load.n >= 0
             /\ p > 0 => s.compliance_score.n * p = c * s.compliance_score.d
             /\ p = 0 => s.compliance_score.n = 0 /\ s.actual_load.n = 0
             /\ s.actual_load.n * s.planned_load.d * s.compliance_score.d
                  = s.planned_load.n * s.compliance_score.n * s.actual_load.d
    /\ last.op = "log_workout_checklist" =>
         /\ last.response.actual_load = training_sessions[last.session_id].actual_load
         /\ last.response.compliance_score.tenths * training_sessions[last.session_id].compliance_score.d
              <= 1000 * training_sessions[last.session_id].compliance_score.n + training_sessions[last.session_id].compliance_score.d
         /\ last.response.compliance_score.tenths * training_sessions[last.session_id].compliance_score.d
              >= 1000 * training_sessions[last.session_id].compliance_score.n - training_sessions[last.session_id].compliance_score.d

\* C1 witness: a session with an empty plan and a non-empty completed list was
\* scored (0, 0).
C1_Witness ==
    \E s \in Sessions :
        /\ s.exercises_planned = <<>>
        /\ Len(s.exercises_completed) > 0
        /\ s.planned_load = Rat(10, 1)
        /\ s.compliance_score = Zero
        /\ s.actual_load = Zero

\* C2 as stated: every persisted session has 0 <= compliance_score <= 1.
C2_Original ==
    \A s \in Sessions :
        RatLe(Zero, s.compliance_score) /\ RatLe(s.compliance_score, One)

\* C2 amended: every persisted session has 0 <= compliance_score, and
\* compliance_score <= 1 whenever the completed list is no longer than the
\* planned list or the plan is empty; a completed list longer than a non-empty
\* plan gives a score above 1.
C2_Amended ==
    \A s \in Sessions :
        LET p == Len(s.exercises_planned)
            c == Len(s.exercises_completed)
        IN  /\ RatLe(Zero, s.compliance_score)
            /\ (c <= p \/ p = 0) => RatLe(s.compliance_score, One)
            /\ (c > p /\ p > 0) => RatLt(One, s.compliance_score)

\* C2 witness: a malformed checklist (a duplicate and an out-of-plan entry)
\* no longer than its plan was persisted with a score of 1.
C2_Witness ==
    \E s \in Sessions :
        /\ s.exercises_planned = <<"a", "a">>
        /\ s.exercises_completed = <<"b", "b">>
        /\ s.compliance_score = One

AllA(n) == [i \in 1..n |-> "a"]

\* C3: the scoring depends on the two list lengths and the load only: a
\* session's scores are those of the lists of "a"s of the same lengths, two
\* sessions with equal lengths and load have equal scores, and a plan of
\* length 1 with 3 completed entries and load 4 scores (3, 12).
C3_LengthOnly ==
    /\ \A s \in Sessions :
         LET r == Score(AllA(Len(s.exercises_planned)),
                        AllA(Len(s.exercises_completed)),
                        s.planned_load.n \div s.planned_load.d)
         IN  /\ s.compliance_score = r.compliance
             /\ s.actual_load = r.actual_load
             /\ (/\ Len(s.exercises_planned) = 1
                 /\ Len(s.exercises_completed) = 3
                 /\ s.planned_load = Rat(4, 1))
                  => s.compliance_score = Rat(3, 1) /\ s.actual_load = Rat(12, 1)
    /\ \A s, t \in Sessions :
         (/\ Len(s.exercises_planned) = Len(t.exercises_planned)
          /\ Len(s.exercises_completed) = Len(t.exercises_completed)
          /\ s.planned_load = t.planned_load)
           => /\ s.compliance_score = t.compliance_score
              /\ s.actual_load = t.actual_load

\* C3 witness: a plan of one exercise with three completed entries, none of
\* them in the plan, and load 4 was scored (3, 12).
C3_Witness ==
    \E s \in Sessions :
        /\ s.exercises_planned = <<"a">>
        /\ s.exercises_completed = <<"b", "b", "b">>
        /\ s.planned_load = Rat(4, 1)
        /\ s.compliance_score = Rat(3, 1)
        /\ s.actual_load = Rat(12, 1)

-----------------------------------------------------------------------------
(* Claims about the fatigue scoring paths (log_vitals of main.py, predict   *)
(* of app.py), checked under Spec.                                          *)

Readings == {vital_readings[i] : i \in 1..Len(vital_readings)}
Assessments == {fatigue_assessments[i] : i \in 1..Len(fatigue_assessments)}
Metrics == {daily_metrics[i] : i \in 1..Len(daily_metrics)}

ModelLabels == UNION {m.labels : m \in Artifacts}

\* C4 as stated: a fatigue assessment call persists its raw sample as a
\* VitalReading with an identifier, whatever the scoring outcome is (model
\* absent, inference raising): once log_vitals has run, the reading of its
\* sample is in vital_readings.
C4_ReadingPersistedAlways ==
    last.op = "log_vitals" =>
        \E r \in Readings :
            /\ r.id \in 1..Len(vital_readings)
            /\ r.athlete_id = last.request.athlete_id
            /\ r.heart_rate = last.request.bpm

\* C5 as stated: a fatigue assessment call with a well-formed sample ends by
\* returning a persisted assessment labelled with a model class, "Normal" or
\* "AI_Error"; a scoring request with every feature numeric ends by returning
\* such a label; no missing model or inference failure aborts either.
C5_NeverFatal ==
    /\ (/\ last.op = "log_vitals"
        /\ \E a \in athletes : a.id = last.request.athlete_id)
         => /\ last.outcome = "returned"
            /\ last.fatigue_result \in ModelLabels \cup {"Normal", "AI_Error"}
            /\ \E row \in Assessments \cup Metrics :
                 /\ row.athlete_id = last.request.athlete_id
                 /\ row.fatigue_status = last.fatigue_result
    /\ (/\ last.op = "predict"
        /\ last.body.missing = <<>>
        /\ DOMAIN last.body.bad = {})
         => /\ last.outcome = "returned"
            /\ last.body.prediction \in ModelLabels \cup {"Normal", "AI_Error"}

\* C6 as stated: with no artifact loaded the label is "Normal" for every
\* input, and the caller can tell the degraded result from a genuine
\* prediction: no loaded model yields, for the same sample, what the degraded
\* call yields.
C6_DegradedObservable ==
    (last.op = "log_vitals" /\ last.degraded) =>
        /\ last.fatigue_result = "Normal"
        /\ ~last.model_invoked
        /\ \A m \in Artifacts :
             \A out \in PredictOutcomes(m, last.input_df) :
                FatigueResult(m, out) # last.fatigue_result

\* C7 as stated: on every path that invokes the model, a predict that raises
\* yields the label "AI_Error" without probabilities and the exception does
\* not leave the handler.
C7_InferenceErrorCaught ==
    /\ (last.op = "log_vitals" /\ last.predict_raised)
         => last.fatigue_result = "AI_Error"
    /\ (last.op = "predict" /\ last.predict_raised)
         => /\ last.outcome = "returned"
            /\ last.body.prediction = "AI_Error"
            /\ ~last.body.has_probabilities

\* The defaults of the channels the strap does not measure (main.py 65-67).
DefaultOf(f) ==
    CASE f = "Body_Temperature" -> 37
      [] f = "Blood_Oxygen" -> 98
      [] OTHER -> 1

\* A JSON value that is not a number in any form: null, or a string that is
\* not made of digits.
NonNumeric(v) ==
    \/ v.kind = "null"
    \/ v.kind = "str" /\ (v.s = <<>> \/ \E i \in 1..Len(v.s) : ~IsDigit(v.s[i]))

NumericValue(v) ==
    CASE v.kind = "num" -> v.v
      [] v.kind = "bool" -> IF v.b THEN 1 ELSE 0
      [] OTHER -> ParseDigits(v.s)

-----------------------------------------------------------------------------
(* Claims about the scoring calls, continued (checked under Spec). *)

Malformed(features, payload) ==
    \E i \in 1..Len(features) :
        \/ features[i] \notin DOMAIN payload
        \/ NonNumeric(payload[features[i]])

\* C11: a scoring request that fails input validation (a feature of the
\* feature list missing or holding a non-numeric value in /predict, a body
\* that is not a MetricInput in /log-vitals) is answered with a client error,
\* the model is not called, and the step leaves every table exactly as it was:
\* the same athletes, readings, assessments, sessions and metric rows.
C11_RejectedBeforePersistence ==
    [][ ( \/ /\ last'.op = "predict"
             /\ Malformed(FEATURES, last'.request)
          \/ last'.op = "log_vitals_rejected" )
        => /\ last'.status \in {400, 422}
           /\ last'.op = "predict" => ~last'.model_invoked
           /\ athletes' = athletes
           /\ daily_metrics' = daily_metrics
           /\ vital_readings' = vital_readings
           /\ fatigue_assessments' = fatigue_assessments
           /\ training_sessions' = training_sessions ]_vars

\* C11 witness: with an athlete on record, a /predict payload holding the
\* string "abc" has just been answered 400.
C11_Witness ==
    /\ last.op = "predict"
    /\ last.status = 400
    /\ \E f \in DOMAIN last.request : last.request[f] = Str(<<"a", "b", "c">>)
    /\ athletes # {}

C14_ProbabilitiesPerClass ==
    (last.op = "predict" /\ last.status = 200) =>
        /\ last.body.prediction \in model.labels
        /\ model.has_predict_proba =>
              /\ last.body.has_probabilities
              /\ DOMAIN last.body.probabilities = model.labels
        /\ ~model.has_predict_proba => ~last.body.has_probabilities

\* C15: when the loaded artifact declares no feature list (or an empty one)
\* the process is up with FEATURES equal to the six fallback names, in that
\* order, and predict builds its vectors over them; when the artifact declares
\* a non-empty list, FEATURES is that list unchanged.
C15_FallbackFeatureList ==
    model # NotStarted =>
        /\ model.feature_names_in_ = <<>> =>
              /\ FEATURES = <<"Heart_Rate", "Body_Temperature", "Blood_Oxygen",
                              "Unnamed: 3", "Heart_Rate_Body_Temp",
                              "Oxygen_Heart_Rate_Ratio">>
              /\ (last.op = "predict" /\ last.built) => Len(last.X) = 6
        /\ model.feature_names_in_ # <<>> => FEATURES = model.feature_names_in_

\* C15 witness: an artifact without a feature list is loaded and predict has
\* classified a six-feature sample with it.
C15_Witness ==
    /\ model = ArtBare
    /\ Len(FEATURES) = 6
    /\ last.op = "predict"
    /\ last.status = 200
    /\ Len(last.X) = 6

-----------------------------------------------------------------------------
(* Claims about repeated builds, checked under SpecRerun. *)

-----------------------------------------------------------------------------
(* Claims about the rows that reference an athlete, checked under SpecStore. *)

\* C12: after any sequence of athlete creations, reading and assessment
\* creations and athlete deletions, the deletions of remove_duplicate_athletes
\* included, every VitalReading and every FatigueAssessment references an
\* athlete that is in table athletes.
C12_NoOrphanRows ==
    /\ \A i \in 1..Len(vital_readings) :
         \E a \in athletes : a.id = vital_readings[i].athlete_id
    /\ \A i \in 1..Len(fatigue_assessments) :
         \E a \in athletes : a.id = fatigue_assessments[i].athlete_id

-----------------------------------------------------------------------------
(* Claims about the maintenance scripts, checked under SpecAthletes. *)

\* The key of C17: the name trimmed and lower-cased, or empty when null; the
\* position, or empty when null.
DedupeKey(r) ==
    <<IF r.name.null THEN <<>> ELSE LowerStr(Strip(r.name.s)),
      IF r.position.null THEN <<>> ELSE r.position.s>>

\* C17: a run of remove_duplicate_athletes only deletes rows; afterwards no two
\* rows share a key; for every key present before the run a row survives that
\* no row of the same key precedes in the order (lower(name), position,
\* created_at); a row whose key no other row had is still there; the number
\* of rows deleted is the number reported; and a second run on the result
\* finds nothing to delete.
C17_DedupeKeepsFirst ==
    [][ last'.op = "remove_duplicate_athletes" =>
          /\ athletes' \subseteq athletes
          /\ \A a, b \in athletes' : DedupeKey(a) = DedupeKey(b) => a = b
          /\ \A r \in athletes :
               \E k \in athletes' :
                   /\ DedupeKey(k) = DedupeKey(r)
                   /\ \A x \in athletes :
                        DedupeKey(x) = DedupeKey(r) => ~OrderedBefore(x, k)
          /\ \A r \in athletes :
               (\A x \in athletes \ {r} : DedupeKey(x) # DedupeKey(r))
                  => r \in athletes'
          /\ last'.deleted = Cardinality(athletes) - Cardinality(athletes')
          /\ \A rows \in SelectOrdered(athletes') : ToDelete(rows, {}) = <<>> ]_vars

\* C17 witness: a run deleted one of three athletes; the survivors are the
\* row named " bo" without a position (kept for the key ("bo", "")) and the
\* row of key ("bo", "F"), which had no duplicate.
C17_Witness ==
    /\ last.op = "remove_duplicate_athletes"
    /\ last.deleted = 1
    /\ athletes_meta.issued = 3
    /\ Cardinality(athletes) = 2
    /\ \E r \in athletes : r.name = Text(<<" ", "b", "o">>) /\ r.position.null
    /\ \E r \in athletes : r.position = Text(<<"F">>)

\* C18: when assign_short_ids or add_and_assign_short_id has completed on a
\* table of N >= 1 athletes, every athlete has a short_id, no two athletes
\* have the same one, the short_ids are exactly the three-digit zero-padded
\* numbers 1..N, and an athlete created earlier has the smaller number; this
\* holds as well when several athletes share a created_at.
C18_ShortIdsAreRanks ==
    ( /\ last.op \in {"assign_short_ids", "add_and_assign_short_id"}
      /\ last.outcome = "completed"
      /\ athletes # {} ) =>
        /\ \A r \in athletes : ~r.short_id.null
        /\ \A a, b \in athletes : a # b => a.short_id # b.short_id
        /\ {r.short_id.s : r \in athletes}
             = {<<"0", "0", Digits[n + 1]>> : n \in 1..Cardinality(athletes)}
        /\ \A a, b \in athletes :
             a.created_at < b.created_at
                => ParseDigits(a.short_id.s) < ParseDigits(b.short_id.s)

\* C18 witness: assign_short_ids has numbered three athletes, two of them
\* with the same created_at.
C18_Witness ==
    /\ last.op = "assign_short_ids"
    /\ last.outcome = "completed"
    /\ Cardinality(athletes) = 3
    /\ \E a, b \in athletes : a # b /\ a.created_at = b.created_at
    /\ \E a \in athletes : a.short_id = Text(<<"0", "0", "3">>)

\* C19: a call of add_athletes either inserts every player of the list or,
\* when constructing an athlete or the commit raises, inserts none and rolls
\* back; it never removes or changes a row; in both cases the session is
\* closed and no exception leaves the function.
C19_AllOrNothing ==
    [][ last'.op = "add_athletes" =>
          /\ last'.session_closed
          /\ ~last'.escaped
          /\ athletes \subseteq athletes'
          /\ \/ /\ last'.outcome = "committed"
                /\ ~last'.rolled_back
                /\ Cardinality(athletes' \ athletes) = last'.requested
             \/ /\ last'.outcome \in {"TypeError", "IntegrityError"}
                /\ last'.rolled_back
                /\ athletes' = athletes ]_vars

\* C19 witness: a list of two players whose second player has a key Athlete
\* does not know: the first athlete had been added to the session when the
\* TypeError came, and the table still holds only the one athlete it held
\* before.
C19_Witness ==
    /\ last.op = "add_athletes"
    /\ last.outcome = "TypeError"
    /\ last.requested = 2
    /\ last.added = 1
    /\ athletes_meta.issued = 1
    /\ Cardinality(athletes) = 1

\* C20: whenever drop_short_id_column or add_and_assign_short_id completes
\* without error, table athletes holds the same athlete ids after the rebuild
\* as before it, neither more nor fewer rows, and every athlete has the name,
\* position, height, weight, age and created_at it had.
C20_RebuildKeepsAthletes ==
    [][ ( /\ last'.op \in {"drop_short_id_column", "add_and_assign_short_id"}
          /\ last'.outcome = "completed" ) =>
          /\ {r.id : r \in athletes'} = {r.id : r \in athletes}
          /\ Cardinality(athletes') = Cardinality(athletes)
          /\ \A r \in athletes :
               \E k \in athletes' :
                   /\ k.id = r.id
                   /\ k.name = r.name
                   /\ k.position = r.position
                   /\ k.height_cm = r.height_cm
                   /\ k.weight_kg = r.weight_kg
                   /\ k.age = r.age
                   /\ k.created_at = r.created_at ]_vars

\* C20 witness: drop_short_id_column has rebuilt a table of three athletes,
\* one of them without a position; the column is gone.
C20_Witness ==
    /\ last.op = "drop_short_id_column"
    /\ last.outcome = "completed"
    /\ athletes_meta.short_id = "none"
    /\ ~athletes_meta.name_not_null
    /\ Cardinality(athletes) = 3
    /\ \E r \in athletes : r.position.null

====
